---- MODULE Spec2Model ----
(***************************************************************************)
(* Roommate task distribution service (src/app.py): the roster, the task   *)
(* list, the assignment table, the rotation (assign_tasks), the Saturday   *)
(* scheduler loop and the HTTP handlers that read or drive them.           *)
(***************************************************************************)
EXTENDS Integers, Sequences, FiniteSets, TLC

VARIABLES roommates, tasks, task_assignments, weekday, phase, sched, last,
          rotated_today

vars == <<roommates, tasks, task_assignments, weekday, phase, sched, last,
          rotated_today>>

(* ------------------------------ bounds --------------------------------- *)

\* The free roommate id the add requests carry (ids 1..5 are taken at start).
NewRoommateId == 6
\* The free task id beyond the next one, 6, that the add requests carry: a
\* task list with this id and without the ids below it has a gap.
GapTaskId == 8

\* The scheduler's rotations of one day are counted up to this many.
MaxWakes == 2

\* Ids of the request bodies: a taken id, and the free ones.  Every id can
\* be added once, which bounds the roster and the task list.
RoommateIdInputs == {5, NewRoommateId}
TaskIdInputs == {5, 6, GapTaskId}
NewRoommateNames == {"Asha"}
NewTaskNames == {"Laundry"}

(* --------------------------- program data ------------------------------ *)

API_KEY == "prajwal2403"
KeyInputs == {API_KEY, "guess"}

InitialRoommates ==
    << [id |-> 1, name |-> "Mithilesh"],
       [id |-> 2, name |-> "Krushna"],
       [id |-> 3, name |-> "Siddant"],
       [id |-> 4, name |-> "Prajwal"],
       [id |-> 5, name |-> "Sanket"] >>

InitialTasks ==
    << [id |-> 1, name |-> "Balcony"],
       [id |-> 2, name |-> "Bathroom"],
       [id |-> 3, name |-> "washroom"],
       [id |-> 4, name |-> "kitchen"],
       [id |-> 5, name |-> "Basin+Floor"] >>

EmptyTable == [k \in {} |-> 0]

RoommateIds(rs) == {rs[i].id : i \in 1..Len(rs)}
TaskIds(ts) == {ts[i].id : i \in 1..Len(ts)}

(* ------------------------------ rotation ------------------------------- *)

\* Variant: the id taken as if it were 0-based.
FirstTaskId_ZeroBased(roommate, n) == (roommate.id % n) + 1

\* First-time assignment: (roommate.id - 1) % len(tasks) + 1.
FirstTaskId(roommate, n) == ((roommate.id - 1) % n) + 1

\* Variant: the increment taken before the modulo.
NextTaskId_IncrementFirst(current_task_id, n) == (current_task_id + 1) % n

\* Variant: no wrap to the first task, the last task is kept.
NextTaskId_NoWrap(current_task_id, n) ==
    IF current_task_id >= n THEN n ELSE current_task_id + 1

\* Later rotations: (current_task_id % len(tasks)) + 1.
NextTaskId(current_task_id, n) == (current_task_id % n) + 1

\* One iteration of the for loop of assign_tasks for roommates[i], followed
\* by the rest of the loop.  cur is the copy taken before the loop, tab the
\* live dictionary the loop writes into.  An exception leaves the entries
\* written so far in place.
RECURSIVE AssignLoop(_, _, _, _, _)
AssignLoop(rs, ts, cur, tab, i) ==
    IF i > Len(rs) THEN [table |-> tab, err |-> "none"]
    ELSE IF cur = EmptyTable
         THEN IF Len(ts) = 0
              THEN [table |-> tab, err |-> "ZeroDivisionError"]
              ELSE AssignLoop(rs, ts, cur,
                              (rs[i].id :> FirstTaskId(rs[i], Len(ts))) @@ tab,
                              i + 1)
         ELSE IF rs[i].id \notin DOMAIN cur
              THEN [table |-> tab, err |-> "KeyError"]
              ELSE IF Len(ts) = 0
              THEN [table |-> tab, err |-> "ZeroDivisionError"]
              ELSE AssignLoop(rs, ts, cur,
                              (rs[i].id :> NextTaskId(cur[rs[i].id], Len(ts))) @@ tab,
                              i + 1)

\* Variant: every call recomputes the first-time assignment.
assign_tasks_Recompute(rs, ts, tab) == AssignLoop(rs, ts, EmptyTable, tab, 1)

\* assign_tasks(): the table it leaves behind and the exception it raised.
assign_tasks(rs, ts, tab) == AssignLoop(rs, ts, tab, tab, 1)

(* ------------------------------- queries ------------------------------- *)

\* datetime.weekday(): Monday is 0 and Sunday is 6.
WeekdayNames ==
    <<"Monday", "Tuesday", "Wednesday", "Thursday", "Friday", "Saturday",
      "Sunday">>
DayName(day) == WeekdayNames[day + 1]

\* Variant: the number isoweekday() gives Saturday.
is_saturday_IsoWeekday(day) == day = 6

\* Variant: the whole weekend.
is_saturday_Weekend(day) == day >= 5

\* datetime.now().weekday() == 5, day being the weekday of the clock.
is_saturday(day) == day = 5

\* Variant: any key that was sent is accepted.
authorize_AnyKey(api_key) == api_key # ""

\* api_key != API_KEY raises 401.
authorize(api_key) == api_key = API_KEY

\* Name of the first task whose id is tid; the generator is exhausted when
\* there is none and next() raises StopIteration (which leaves the coroutine
\* as a RuntimeError: the request fails either way).
RECURSIVE FirstTaskNamed(_, _, _)
FirstTaskNamed(ts, tid, j) ==
    IF j > Len(ts) THEN [found |-> FALSE, name |-> ""]
    ELSE IF ts[j].id = tid THEN [found |-> TRUE, name |-> ts[j].name]
    ELSE FirstTaskNamed(ts, tid, j + 1)

\* The dict comprehension of get_tasks, roommate by roommate; a later
\* roommate of the same name overwrites the earlier key.
RECURSIVE GetTasksLoop(_, _, _, _, _)
GetTasksLoop(rs, ts, tab, acc, i) ==
    IF i > Len(rs) THEN [err |-> "none", body |-> acc]
    ELSE IF rs[i].id \notin DOMAIN tab
         THEN [err |-> "KeyError", body |-> EmptyTable]
         ELSE LET t == FirstTaskNamed(ts, tab[rs[i].id], 1)
              IN  IF ~t.found
                  THEN [err |-> "StopIteration", body |-> EmptyTable]
                  ELSE GetTasksLoop(rs, ts, tab,
                                    (rs[i].name :> t.name) @@ acc, i + 1)

\* Variant: lookups with a default instead of an exception.
get_tasks_Default(rs, ts, tab) ==
    [err |-> "none",
     body |-> [nm \in {rs[i].name : i \in 1..Len(rs)} |->
                 LET i == CHOOSE k \in 1..Len(rs) : rs[k].name = nm
                 IN  IF rs[i].id \in DOMAIN tab
                     THEN FirstTaskNamed(ts, tab[rs[i].id], 1).name
                     ELSE ""]]

get_tasks(rs, ts, tab) == GetTasksLoop(rs, ts, tab, EmptyTable, 1)

(* ------------------------------- state --------------------------------- *)

\* No request was handled by the step (nor a scheduler pass made).
NoRequest == [op |-> "none", id |-> 0, key |-> "", result |-> "none"]

Init ==
    /\ roommates = InitialRoommates
    /\ tasks = InitialTasks
    /\ task_assignments = EmptyTable
    /\ weekday \in 0..6
    /\ phase = "import"
    /\ sched = "none"
    /\ last = NoRequest
    /\ rotated_today = 0

\* Module level call of assign_tasks() while the module is imported.
ModuleLoad ==
    /\ phase = "import"
    /\ LET r == assign_tasks(roommates, tasks, task_assignments)
       IN  /\ task_assignments' = r.table
           /\ last' = [op |-> "initial_assign", id |-> 0, key |-> "",
                       result |-> IF r.err = "none" THEN "ok" ELSE r.err]
    /\ phase' = "loaded"
    /\ UNCHANGED <<roommates, tasks, weekday, sched, rotated_today>>

\* startup_event(): creates the scheduler task, which runs its first check
\* without sleeping first.
startup_event ==
    /\ phase = "loaded"
    /\ phase' = "serving"
    /\ sched' = "check"
    /\ last' = NoRequest
    /\ UNCHANGED <<roommates, tasks, task_assignments, weekday, rotated_today>>

\* The wall clock moves on to the next day.
Tick ==
    /\ weekday' = (weekday + 1) % 7
    /\ last' = NoRequest
    /\ rotated_today' = 0
    /\ UNCHANGED <<roommates, tasks, task_assignments, phase, sched>>

\* The sleep of the scheduler loop (3600 s, or 60 s after an error) is over.
TimerElapses ==
    /\ sched \in {"sleep3600", "sleep60"}
    /\ sched' = "check"
    /\ last' = NoRequest
    /\ UNCHANGED <<roommates, tasks, task_assignments, weekday, phase, rotated_today>>

\* Variant: the exception leaves the loop.
ExceptHandler_Propagate(err) == IF err = "none" THEN "sleep3600" ELSE "dead"

\* Where the loop goes after the try block: the except clause catches every
\* Exception and sleeps 60 s, the normal path sleeps 3600 s.
ExceptHandler(err) == IF err = "none" THEN "sleep3600" ELSE "sleep60"

\* Variant: a day that saw a rotation of the scheduler sees no second one.
TriggerFires_OncePerDay(day, rotated) == is_saturday(day) /\ rotated = 0

\* The condition of the if statement of the loop: is_saturday() alone, with
\* no look at the rotations the scheduler already made that day.
TriggerFires(day, rotated) == is_saturday(day)

\* One pass of the body of check_saturday_and_update_tasks.  rotated_today
\* counts, up to MaxWakes, the passes since the last change of day that
\* rotated without an exception.
check_saturday_and_update_tasks ==
    /\ sched = "check"
    /\ IF TriggerFires(weekday, rotated_today)
       THEN LET r == assign_tasks(roommates, tasks, task_assignments)
            IN  /\ task_assignments' = r.table
                /\ sched' = ExceptHandler(r.err)
                /\ last' = [op |-> "scheduler", id |-> 0, key |-> "",
                            result |-> IF r.err = "none" THEN "ok" ELSE r.err]
                /\ rotated_today' = IF r.err = "none" /\ rotated_today < MaxWakes
                                    THEN rotated_today + 1
                                    ELSE rotated_today
       ELSE /\ task_assignments' = task_assignments
            /\ sched' = ExceptHandler("none")
            /\ last' = [op |-> "scheduler", id |-> 0, key |-> "", result |-> "skipped"]
            /\ rotated_today' = rotated_today
    /\ UNCHANGED <<roommates, tasks, weekday, phase>>

\* GET /tasks
GetTasks ==
    /\ phase = "serving"
    /\ LET r == get_tasks(roommates, tasks, task_assignments)
       IN  last' = [op |-> "get_tasks", id |-> 0, key |-> "",
                    result |-> IF r.err = "none" THEN "ok" ELSE r.err]
    /\ UNCHANGED <<roommates, tasks, task_assignments, weekday, phase, sched,
                   rotated_today>>

\* POST /update-tasks
update_tasks(api_key) ==
    /\ phase = "serving"
    /\ IF ~authorize(api_key)
       THEN /\ last' = [op |-> "update_tasks", id |-> 0, key |-> api_key, result |-> "HTTP401"]
            /\ UNCHANGED task_assignments
       ELSE LET r == assign_tasks(roommates, tasks, task_assignments)
                g == get_tasks(roommates, tasks, r.table)
            IN  /\ task_assignments' = r.table
                /\ last' = [op |-> "update_tasks", id |-> 0, key |-> api_key,
                            result |-> IF r.err # "none" THEN r.err
                                       ELSE IF g.err # "none" THEN g.err
                                       ELSE "ok"]
    /\ UNCHANGED <<roommates, tasks, weekday, phase, sched, rotated_today>>

\* Variant: only the first roommate is compared.
RoommateIdExists_FirstOnly(rs, roommate) ==
    Len(rs) > 0 /\ rs[1].id = roommate.id

\* any(r.id == roommate.id for r in roommates)
RoommateIdExists(rs, roommate) == \E i \in 1..Len(rs) : rs[i].id = roommate.id

\* any(t.id == task.id for t in tasks)
TaskIdExists(ts, task) == \E j \in 1..Len(ts) : ts[j].id = task.id

\* Variant: the new roommate put first.
AppendRoommate_Front(rs, roommate) == <<roommate>> \o rs

\* roommates.append(roommate)
AppendRoommate(rs, roommate) == Append(rs, roommate)

\* Variant: the new task put first.
AppendTask_Front(ts, task) == <<task>> \o ts

\* tasks.append(task)
AppendTask(ts, task) == Append(ts, task)

\* POST /roommates
add_roommate(roommate, api_key) ==
    /\ phase = "serving"
    /\ IF ~authorize(api_key)
       THEN /\ last' = [op |-> "add_roommate", id |-> roommate.id, key |-> api_key,
                        result |-> "HTTP401"]
            /\ UNCHANGED <<roommates, task_assignments>>
       ELSE IF RoommateIdExists(roommates, roommate)
       THEN /\ last' = [op |-> "add_roommate", id |-> roommate.id, key |-> api_key,
                        result |-> "HTTP400"]
            /\ UNCHANGED <<roommates, task_assignments>>
       ELSE LET rs == AppendRoommate(roommates, roommate)
                r == assign_tasks(rs, tasks, task_assignments)
            IN  /\ roommates' = rs
                /\ task_assignments' = r.table
                /\ last' = [op |-> "add_roommate", id |-> roommate.id, key |-> api_key,
                            result |-> IF r.err = "none" THEN "ok" ELSE r.err]
    /\ UNCHANGED <<tasks, weekday, phase, sched, rotated_today>>

\* POST /tasks/add
add_task(task, api_key) ==
    /\ phase = "serving"
    /\ IF ~authorize(api_key)
       THEN /\ last' = [op |-> "add_task", id |-> task.id, key |-> api_key, result |-> "HTTP401"]
            /\ UNCHANGED <<tasks, task_assignments>>
       ELSE IF TaskIdExists(tasks, task)
       THEN /\ last' = [op |-> "add_task", id |-> task.id, key |-> api_key, result |-> "HTTP400"]
            /\ UNCHANGED <<tasks, task_assignments>>
       ELSE LET ts == AppendTask(tasks, task)
                r == assign_tasks(roommates, ts, task_assignments)
            IN  /\ tasks' = ts
                /\ task_assignments' = r.table
                /\ last' = [op |-> "add_task", id |-> task.id, key |-> api_key,
                            result |-> IF r.err = "none" THEN "ok" ELSE r.err]
    /\ UNCHANGED <<roommates, weekday, phase, sched, rotated_today>>

Next ==
    \/ ModuleLoad
    \/ startup_event
    \/ Tick
    \/ TimerElapses
    \/ check_saturday_and_update_tasks
    \/ GetTasks
    \/ \E k \in KeyInputs : update_tasks(k)
    \/ \E i \in RoommateIdInputs, n \in NewRoommateNames, k \in KeyInputs :
          add_roommate([id |-> i, name |-> n], k)
    \/ \E i \in TaskIdInputs, n \in NewTaskNames, k \in KeyInputs :
          add_task([id |-> i, name |-> n], k)

Spec == Init /\ [][Next]_vars

\* The scheduler's timer and its loop body always get to run; requests and
\* the clock are the environment's and carry no fairness.
FairSpec ==
    /\ Spec
    /\ WF_vars(ModuleLoad)
    /\ WF_vars(startup_event)
    /\ WF_vars(TimerElapses)
    /\ WF_vars(check_saturday_and_update_tasks)

(* ----------------- assign_tasks on rosters and task lists -------------- *)

\* Largest roommate id and longest task list assign_tasks is applied to.
MaxFnRoommateId == 3
MaxFnTasks == 4

FnRoommate(i) == [id |-> i, name |-> "P"]

\* Rosters of at most two roommates with distinct ids, the empty one included.
FnRosters ==
    {<< >>}
      \cup {<<FnRoommate(i)>> : i \in 1..MaxFnRoommateId}
      \cup {<<FnRoommate(ij[1]), FnRoommate(ij[2])>> :
                ij \in {x \in (1..MaxFnRoommateId) \X (1..MaxFnRoommateId) :
                           x[1] # x[2]}}

\* Task lists with the ids 1..k, the empty one included.
FnTaskLists == {[j \in 1..k |-> [id |-> j, name |-> "T"]] : k \in 0..MaxFnTasks}

\* The module globals set to a roster and a task list, no assignment made.
RotateInit ==
    /\ roommates \in FnRosters
    /\ tasks \in FnTaskLists
    /\ task_assignments = EmptyTable
    /\ weekday = 0
    /\ phase = "function"
    /\ sched = "none"
    /\ last = NoRequest
    /\ rotated_today = 0

\* A call of assign_tasks().
rotate ==
    /\ phase = "function"
    /\ LET r == assign_tasks(roommates, tasks, task_assignments)
       IN  /\ task_assignments' = r.table
           /\ last' = [op |-> "rotate", id |-> 0, key |-> "",
                       result |-> IF r.err = "none" THEN "ok" ELSE r.err]
    /\ UNCHANGED <<roommates, tasks, weekday, phase, sched, rotated_today>>

RotateNext == rotate

RotateSpec == RotateInit /\ [][RotateNext]_vars

(* ------------------------------ properties ----------------------------- *)

TypeOK ==
    /\ phase \in {"import", "loaded", "serving", "function"}
    /\ sched \in {"none", "check", "sleep3600", "sleep60", "dead"}
    /\ weekday \in 0..6
    /\ RoommateIds(roommates) \subseteq 1..5 \cup RoommateIdInputs
    /\ TaskIds(tasks) \subseteq 1..5 \cup TaskIdInputs
    /\ rotated_today \in 0..MaxWakes

\* The step just taken ran assign_tasks (to its end or to an exception).
RotationRan ==
    \/ last'.op \in {"initial_assign", "update_tasks", "add_roommate", "add_task"}
       /\ last'.result \notin {"HTTP400", "HTTP401"}
    \/ last'.op = "scheduler" /\ last'.result # "skipped"

\* Some roommate has no entry, or an entry that names no task.
Dangling ==
    \E i \in 1..Len(roommates) :
        \/ roommates[i].id \notin DOMAIN task_assignments
        \/ task_assignments[roommates[i].id] \notin TaskIds(tasks)

\* C1: once the first assignment was made, every roommate has an entry in
\* the assignment table and the entry is the id of a task of the task list.
C1_NoDanglingReference == phase # "import" => ~Dangling

\* C2: a rotation of an initialized table takes every entry c of the table
\* to (c mod |tasks|) + 1, |tasks| being the count the rotation runs with;
\* roster [P1,P2], tasks [1,2,3], P1->1, P2->2 becomes P1->2, P2->3.
C2_Example ==
    assign_tasks(<<[id |-> 1, name |-> "P1"], [id |-> 2, name |-> "P2"]>>,
                 <<[id |-> 1, name |-> "T1"], [id |-> 2, name |-> "T2"],
                   [id |-> 3, name |-> "T3"]>>,
                 (1 :> 1) @@ (2 :> 2))
      = [table |-> (1 :> 2) @@ (2 :> 3), err |-> "none"]

C2_SuccessorOfOwnTask ==
    [][ /\ C2_Example
        /\ (RotationRan /\ task_assignments # EmptyTable) =>
              \A p \in DOMAIN task_assignments :
                  /\ p \in DOMAIN task_assignments'
                  /\ task_assignments'[p]
                       = (task_assignments[p] % Len(tasks')) + 1 ]_vars

C2_Witness ==
    /\ last.op = "update_tasks" /\ last.result = "ok"
    /\ task_assignments[1] = 2 /\ task_assignments[2] = 3

\* C3: the first assignment gives the roommate at 0-based roster position i
\* the task id (i mod |tasks|) + 1.
C3_FirstAssignmentByPosition ==
    last.op = "initial_assign" =>
        /\ last.result = "ok"
        /\ DOMAIN task_assignments = RoommateIds(roommates)
        /\ \A i \in 1..Len(roommates) :
              task_assignments[roommates[i].id] = ((i - 1) % Len(tasks)) + 1

C3_Witness ==
    /\ last.op = "initial_assign" /\ phase = "loaded"
    /\ task_assignments[5] = 5

\* C4: an authorized add request whose id is already taken is answered with
\* the duplicate-id error (HTTP 400), and no add request with a taken id
\* changes the roster, the task list or the assignment table.
C4_DuplicateLeavesStateUnchanged ==
    [][ /\ (last'.op = "add_roommate" /\ last'.id \in RoommateIds(roommates)) =>
              /\ UNCHANGED <<roommates, tasks, task_assignments>>
              /\ last'.key = API_KEY => last'.result = "HTTP400"
        /\ (last'.op = "add_task" /\ last'.id \in TaskIds(tasks)) =>
              /\ UNCHANGED <<roommates, tasks, task_assignments>>
              /\ last'.key = API_KEY => last'.result = "HTTP400" ]_vars

C4_Witness ==
    /\ last.op = "add_roommate" /\ last.result = "HTTP400"
    /\ last.id \in RoommateIds(roommates)

\* C5: whenever the service is between operations, the key set of the
\* assignment table is the set of roommate ids.
C5_TableCoversRoster ==
    phase = "serving" => DOMAIN task_assignments = RoommateIds(roommates)

\* C6: every step leaves the assignment table as it was, or leaves the
\* complete rotated table: an entry for every roommate, every former entry
\* advanced.
C6_AllOrNothing ==
    [][ \/ task_assignments' = task_assignments
        \/ \A i \in 1..Len(roommates') :
              LET p == roommates'[i].id
              IN  /\ p \in DOMAIN task_assignments'
                  /\ p \in DOMAIN task_assignments =>
                        task_assignments'[p]
                          = (task_assignments[p] % Len(tasks')) + 1 ]_vars

\* C7: a rotation that runs with a roommate already in the roster (added by
\* an earlier request) leaves that roommate with an entry in the table.
C7_AddedPersonSeenByNextRotation ==
    [][ RotationRan =>
          \A i \in 1..Len(roommates) :
              roommates[i].id \in DOMAIN task_assignments' ]_vars

\* C8: an exception in a wake of the scheduler sends the loop to its 60 s
\* sleep, the loop never ends, and it checks the trigger again and again.
C8_SchedulerNeverDies ==
    /\ [](sched \in {"none", "check", "sleep3600", "sleep60"})
    /\ []((last.op = "scheduler" /\ last.result \notin {"ok", "skipped"})
            => sched = "sleep60")
    /\ (sched = "sleep60") ~> (sched = "check")
    /\ []<>(last.op = "scheduler")

C8_Witness ==
    /\ last.op = "scheduler" /\ last.result = "KeyError"
    /\ sched = "sleep60"

\* C9: while some roommate's entry is missing or names no task, get_tasks
\* raises an exception and returns no mapping.
C9_GetTasksSurfacesDangling ==
    /\ Dangling => get_tasks(roommates, tasks, task_assignments).err # "none"
    /\ (last.op = "get_tasks" /\ Dangling) => last.result # "ok"

C9_Witness ==
    /\ last.op = "get_tasks" /\ last.result = "StopIteration"
    /\ Dangling

\* C10: two calls of assign_tasks in a row both change the table: the table
\* after the first differs from the table before it, and the table after
\* the second from the table after the first.
C10_RotateNotIdempotent ==
    Len(roommates) > 0 =>
        LET t1 == assign_tasks(roommates, tasks, task_assignments).table
            t2 == assign_tasks(roommates, tasks, t1).table
        IN  t1 # task_assignments /\ t2 # t1

C10_Witness ==
    /\ last.op = "update_tasks" /\ last.result = "ok"
    /\ task_assignments[1] = 3

C12_TriggerIsSaturday ==
    /\ is_saturday(weekday) <=> DayName(weekday) = "Saturday"
    /\ last.op = "scheduler" =>
          (last.result = "skipped" <=> DayName(weekday) # "Saturday")

C12_Witness ==
    /\ last.op = "scheduler" /\ last.result = "ok"
    /\ DayName(weekday) = "Saturday"

\* C13: a pass of the scheduler on a day other than Saturday changes neither
\* the roster, the task list nor the assignment table, and a pass that runs
\* assign_tasks is a pass on a Saturday.
C13_NoRotationOffSaturday ==
    [][ last'.op = "scheduler" =>
          /\ DayName(weekday) # "Saturday" =>
                /\ UNCHANGED <<roommates, tasks, task_assignments>>
                /\ last'.result = "skipped"
          /\ last'.result # "skipped" => DayName(weekday) = "Saturday" ]_vars

C13_Witness ==
    /\ last.op = "scheduler" /\ last.result = "skipped"
    /\ DayName(weekday) = "Wednesday"

\* C14: every pass of the scheduler on a Saturday runs assign_tasks and
\* advances every entry of the table by one step, also when the scheduler
\* already rotated that day: the passes of one day add up.
C14_RotatesOnEveryWake ==
    [][ (last'.op = "scheduler" /\ DayName(weekday) = "Saturday") =>
          /\ last'.result # "skipped"
          /\ \A p \in DOMAIN task_assignments :
                task_assignments'[p]
                  = (task_assignments[p] % Len(tasks)) + 1
          /\ (last'.result = "ok" /\ rotated_today < MaxWakes) =>
                rotated_today' = rotated_today + 1 ]_vars

C14_Witness ==
    /\ last.op = "scheduler" /\ last.result = "ok"
    /\ DayName(weekday) = "Saturday"
    /\ rotated_today = MaxWakes

\* C15: an add_task request with a free id puts the task at the end of the
\* task list, the tasks before it in their order, and rotates the table
\* once with the new task count: every entry c becomes
\* (c mod (|tasks| + 1)) + 1, |tasks| being the count before the request.
C15_AddTaskAppendsAndRotatesOnce ==
    [][ (last'.op = "add_task" /\ last'.result \notin {"HTTP400", "HTTP401"}) =>
          /\ last'.id \notin TaskIds(tasks)
          /\ Len(tasks') = Len(tasks) + 1
          /\ SubSeq(tasks', 1, Len(tasks)) = tasks
          /\ tasks'[Len(tasks')].id = last'.id
          /\ DOMAIN task_assignments' = DOMAIN task_assignments
          /\ \A p \in DOMAIN task_assignments :
                task_assignments'[p]
                  = (task_assignments[p] % (Len(tasks) + 1)) + 1 ]_vars

C15_Witness ==
    /\ last.op = "add_task" /\ last.result = "ok"
    /\ Len(tasks) = 6 /\ tasks[6].id = last.id

\* C16: a force-rotation, add-roommate or add-task request with a key other
\* than the configured one is answered 401 and changes neither the roster,
\* the task list nor the assignment table; reading the assignments asks
\* for no key and succeeds whenever no entry dangles.
C16_UnauthorizedChangesNothing ==
    [][ /\ (last'.op \in {"update_tasks", "add_roommate", "add_task"}
              /\ last'.key # API_KEY) =>
              /\ last'.result = "HTTP401"
              /\ UNCHANGED <<roommates, tasks, task_assignments>>
        /\ last'.op = "get_tasks" =>
              /\ last'.result # "HTTP401"
              /\ ~Dangling => last'.result = "ok" ]_vars

C16_Witness ==
    /\ last.op = "update_tasks" /\ last.result = "HTTP401"
    /\ last.key # API_KEY

\* C17: no two roommates of the assignment table hold the same task id.
C17_NoSharedTask ==
    \A p, q \in DOMAIN task_assignments :
        p # q => task_assignments[p] # task_assignments[q]

C17_Witness ==
    /\ Len(tasks) = 7
    /\ last.op = "scheduler" /\ last.result = "ok"
    /\ Cardinality({task_assignments[p] : p \in DOMAIN task_assignments}) = 5

\* The table after k calls of assign_tasks in a row.
RECURSIVE RotateTimes(_, _, _, _)
RotateTimes(rs, ts, tab, k) ==
    IF k = 0 THEN tab
    ELSE RotateTimes(rs, ts, assign_tasks(rs, ts, tab).table, k - 1)

\* C18: with the task ids 1..N, N rotations in a row give back the table
\* they started from, and on the way every roommate of the roster holds
\* every task id of 1..N.
C18_FullCycle ==
    (phase # "import" /\ TaskIds(tasks) = 1..Len(tasks)) =>
        LET N == Len(tasks)
            T(k) == RotateTimes(roommates, tasks, task_assignments, k)
        IN  /\ T(N) = task_assignments
            /\ \A i \in 1..Len(roommates) :
                  LET p == roommates[i].id
                  IN  /\ p \in DOMAIN task_assignments
                      /\ {T(k)[p] : k \in 1..N} = 1..N

\* The part of C18 that is about the entries of the table alone.
C18_EntriesCycle ==
    (phase # "import" /\ TaskIds(tasks) = 1..Len(tasks)) =>
        LET N == Len(tasks)
            T(k) == RotateTimes(roommates, tasks, task_assignments, k)
        IN  /\ T(N) = task_assignments
            /\ \A p \in DOMAIN task_assignments :
                  {T(k)[p] : k \in 1..N} = 1..N

IsPrefix(s, t) == Len(s) <= Len(t) /\ SubSeq(t, 1, Len(s)) = s

\* C19: every step leaves the roster and the task list as they were or
\* longer by entries put at the end; a rotation that no add request makes
\* changes neither, an add request changes only its own list, and get_tasks
\* changes nothing.
C19_ListsOnlyGrowAtEnd ==
    [][ /\ IsPrefix(roommates, roommates')
        /\ IsPrefix(tasks, tasks')
        /\ last'.op \in {"initial_assign", "scheduler", "update_tasks", "get_tasks"}
              => UNCHANGED <<roommates, tasks>>
        /\ last'.op = "get_tasks" => UNCHANGED task_assignments
        /\ last'.op = "add_roommate" => UNCHANGED tasks
        /\ last'.op = "add_task" => UNCHANGED roommates ]_vars

C19_Witness ==
    /\ last.op = "add_roommate" /\ last.id = NewRoommateId
    /\ Len(roommates) = 6 /\ roommates[6].id = NewRoommateId
    /\ Len(tasks) = 7

====
